---- MODULE Spec2Model ----
(***************************************************************************)
(* SUPER CAPT (src/pdf_allinone_capture.py): the UI thread of SuperCaptApp  *)
(* and the capture / crop / PDF worker threads it starts.                   *)
(*                                                                          *)
(* One action is one handler run to completion on the UI thread (up to the  *)
(* next modal dialog, which runs a nested event loop), or one worker step   *)
(* between two accesses to state shared with the UI thread.                 *)
(* Each run gets its own timestamped directories (runs start in distinct    *)
(* seconds).  Under Spec, SpecRestart and the single-run specifications no  *)
(* collaborator call fails; SpecFaults adds the failures.                   *)
(***************************************************************************)
EXTENDS Integers, Sequences, FiniteSets, TLC

\* ---- bounds of the model -------------------------------------------------
MaxTotal == 2      \* largest value of total_pages_spinbox explored by Spec and SpecRestart
MaxRuns  == 1      \* number of start_capture calls explored by Spec (SpecRestart: one more)
MaxCoord == 1      \* mouse positions are (c, c), c in 0..MaxCoord
MaxPages == 11     \* largest value of total_pages_spinbox explored by SpecUninterrupted
MaxLongRun == 50   \* largest value of total_pages_spinbox explored by SpecLongRun

\* ---- program constants ---------------------------------------------------
MinPages == 1      \* setRange(1, 9999)
PadWidth == 4      \* f"page_{page:04d}.png"

Runs   == 1..(MaxRuns + 1)
Points == {<<c, c>> : c \in 0..MaxCoord}
None   == <<>>

VARIABLES
    is_admin,        \* os.getuid() == 0 / IsUserAnAdmin()
    total_pages,     \* total_pages_spinbox.value()
    start_enabled, pause_enabled, stop_enabled,
    progress_bar,    \* progress_bar.value()
    is_capturing, is_paused,
    crop_area,       \* None or <<x, y, w, h>>
    capture_thread,  \* 0 (None) or the run whose thread was started last
    snip,            \* SnippingWidget.begin / .end
    ui,              \* stack: bottom is the visible window, above it the open modal dialogs
    queue,           \* queued signals of self.comm, worker -> UI thread
    thr,             \* per run: the worker thread's locals and position
    fs,              \* per run: capture directory, cropped directory, PDF
    hist,            \* per run: what the worker did (history)
    stopCount,       \* number of confirmed stops (history)
    joined           \* runs whose thread was joined with a timeout (history)

vars == <<is_admin, total_pages, start_enabled, pause_enabled, stop_enabled,
          progress_bar, is_capturing, is_paused, crop_area, capture_thread, snip, ui, queue,
          thr, fs, hist, stopCount, joined>>

uiVars  == <<start_enabled, pause_enabled, stop_enabled, progress_bar>>
runVars == <<thr, fs, hist>>

\* ---- file names -----------------------------------------------------------
\* characters are code points: '0' is 48, '.' is 46
Chr0   == 48
Prefix == <<112, 97, 103, 101, 95>>      \* "page_"
Suffix == <<46, 112, 110, 103>>          \* ".png"

RECURSIVE Digits(_)
Digits(n) == IF n < 10 THEN <<Chr0 + n>> ELSE Append(Digits(n \div 10), Chr0 + (n % 10))

RECURSIVE ZeroPad(_, _)
ZeroPad(s, w) == IF Len(s) >= w THEN s ELSE ZeroPad(<<Chr0>> \o s, w)

\* mutant: the page number is not zero-padded (f"page_{page}.png")
PageNameUnpadded(page) == Prefix \o Digits(page) \o Suffix

\* f"page_{page:04d}.png"
PageName(page) == Prefix \o ZeroPad(Digits(page), PadWidth) \o Suffix

\* str.__lt__ : lexicographic by code point
StrLess(a, b) ==
    \/ \E i \in 1..Len(a) : /\ i <= Len(b)
                            /\ \A j \in 1..(i-1) : a[j] = b[j]
                            /\ a[i] < b[i]
    \/ /\ Len(a) < Len(b)
       /\ \A j \in 1..Len(a) : a[j] = b[j]

\* f.endswith('.png')
EndsWithPng(name) ==
    /\ Len(name) >= Len(Suffix)
    /\ SubSeq(name, Len(name) - Len(Suffix) + 1, Len(name)) = Suffix

\* sorted(list of str)
RECURSIVE Sorted(_)
Sorted(S) ==
    IF S = {} THEN <<>>
    ELSE LET m == CHOOSE x \in S : \A y \in S \ {x} : StrLess(x, y)
         IN  <<m>> \o Sorted(S \ {m})

\* os.listdir(dir) filtered by endswith('.png'), then sorted
PngListing(dir) == Sorted({f.name : f \in {g \in dir : EndsWithPng(g.name)}})

FileNamed(dir, name) == CHOOSE f \in dir : f.name = name

\* Image.save(path): creates or overwrites the file of that name
SaveFile(dir, file) == {f \in dir : f.name # file.name} \cup {file}

\* ---- QRect ----------------------------------------------------------------
\* QRect(topLeft, bottomRight): corners are inclusive
QRect(p1, p2) == [x1 |-> p1[1], y1 |-> p1[2], x2 |-> p2[1], y2 |-> p2[2]]

\* QRect::normalized()
normalized(r) ==
    LET sx == r.x2 < r.x1
        sy == r.y2 < r.y1
    IN  [x1 |-> IF sx THEN r.x2 + 1 ELSE r.x1,
         x2 |-> IF sx THEN r.x1 - 1 ELSE r.x2,
         y1 |-> IF sy THEN r.y2 + 1 ELSE r.y1,
         y2 |-> IF sy THEN r.y1 - 1 ELSE r.y2]

width(r)   == r.x2 - r.x1 + 1
height(r)  == r.y2 - r.y1 + 1
isEmpty(r) == r.x1 > r.x2 \/ r.y1 > r.y2

\* ---- helpers --------------------------------------------------------------
Top(s) == s[Len(s)]
Pop(s) == SubSeq(s, 1, Len(s) - 1)
Push(s, e) == Append(s, e)

ProcessRunning == ui \notin {<<"closed">>, <<"crashed">>}
EventLoop      == ProcessRunning /\ ui # <<"joining">>

Alive(r) == thr[r].pc \notin {"none", "done", "killed"}

CapturePcs == {"mkdir", "countdown", "check", "pausewait", "shot", "press", "after"}
CropPcs    == {"ccheck", "ccrop", "pdf"}

NoThread == [pc |-> "none", total |-> 0, page |-> 0, image_files |-> <<>>, i |-> 0]
NoFiles  == [capMade |-> FALSE, cap |-> {}, cropMade |-> FALSE, crop |-> {}, pdf |-> <<>>]
NoHist   == [captured |-> <<>>, exit |-> "", stop |-> "", pressed |-> 0, progress |-> <<>>,
             completed |-> 0]
NoSnip   == [begin |-> None, end |-> None]

Init ==
    /\ is_admin \in BOOLEAN
    /\ total_pages \in MinPages..MaxTotal
    /\ start_enabled = TRUE
    /\ pause_enabled = FALSE
    /\ stop_enabled = FALSE
    /\ progress_bar = -1          \* QProgressBar() before any setValue
    /\ is_capturing = FALSE
    /\ is_paused = FALSE
    /\ crop_area = None
    /\ capture_thread = 0
    /\ snip = NoSnip
    /\ ui = <<"main">>
    /\ queue = <<>>
    /\ thr = [r \in Runs |-> NoThread]
    /\ fs = [r \in Runs |-> NoFiles]
    /\ hist = [r \in Runs |-> NoHist]
    /\ stopCount = 0
    /\ joined = {}

\* ---- UI thread ------------------------------------------------------------
\* mutant: the paused flag survives the reset
reset_ui_keeps_pause ==
    /\ start_enabled' = TRUE
    /\ pause_enabled' = FALSE
    /\ stop_enabled' = FALSE
    /\ progress_bar' = 0
    /\ is_capturing' = FALSE
    /\ is_paused' = is_paused

\* reset_ui followed, in the same handler, by update_progress(value, ...)
ResetThenProgress(value) ==
    /\ start_enabled' = TRUE
    /\ pause_enabled' = FALSE
    /\ stop_enabled' = FALSE
    /\ progress_bar' = value
    /\ is_capturing' = FALSE
    /\ is_paused' = FALSE

\* its own update_progress(0, "Ready") is the last one
reset_ui == ResetThenProgress(0)

\* mutant: the administrator check is missing
StartProcessUnchecked(cap) ==
    /\ Top(ui) = "main"
    /\ start_enabled
    /\ capture_thread < cap
    /\ start_enabled' = FALSE
    /\ pause_enabled' = TRUE
    /\ stop_enabled' = TRUE
    /\ ui' = Push(ui, "prepareInfo")
    /\ UNCHANGED <<is_admin, total_pages, progress_bar, is_capturing, is_paused, crop_area,
                   capture_thread, snip, queue, runVars, stopCount, joined>>

\* Start clicked: start_process up to its first message box
\* (cap: the number of runs the exploration allows)
StartProcess(cap) ==
    /\ Top(ui) = "main"
    /\ start_enabled
    /\ capture_thread < cap
    /\ IF ~is_admin
       THEN /\ ui' = Push(ui, "adminWarning")
            /\ UNCHANGED uiVars
       ELSE /\ start_enabled' = FALSE
            /\ pause_enabled' = TRUE
            /\ stop_enabled' = TRUE
            /\ ui' = Push(ui, "prepareInfo")
            /\ UNCHANGED progress_bar
    /\ UNCHANGED <<is_admin, total_pages, is_capturing, is_paused, crop_area,
                   capture_thread, snip, queue, runVars, stopCount, joined>>

start_process == StartProcess(MaxRuns)

\* the same handler where one more run may be started
restart_process == StartProcess(MaxRuns + 1)

\* the warning box is dismissed: start_process returns
admin_warning_closed ==
    /\ Top(ui) = "adminWarning"
    /\ ui' = Pop(ui)
    /\ UNCHANGED <<is_admin, total_pages, uiVars, is_capturing, is_paused, crop_area,
                   capture_thread, snip, queue, runVars, stopCount, joined>>

\* "Prepare for Capture" is dismissed: select_crop_area hides the window and shows the overlay
select_crop_area ==
    /\ Top(ui) = "prepareInfo"
    /\ ui' = <<"snip">>
    /\ snip' = NoSnip
    /\ UNCHANGED <<is_admin, total_pages, uiVars, is_capturing, is_paused, crop_area,
                   capture_thread, queue, runVars, stopCount, joined>>

mousePressEvent(p) ==
    /\ Top(ui) = "snip"
    /\ snip' = [begin |-> p, end |-> p]
    /\ UNCHANGED <<is_admin, total_pages, uiVars, is_capturing, is_paused, crop_area,
                   capture_thread, ui, queue, runVars, stopCount, joined>>

mouseMoveEvent(p) ==
    /\ Top(ui) = "snip"
    /\ snip.begin # None
    /\ snip' = [snip EXCEPT !.end = p]
    /\ UNCHANGED <<is_admin, total_pages, uiVars, is_capturing, is_paused, crop_area,
                   capture_thread, ui, queue, runVars, stopCount, joined>>

\* start_capture: the thread of a new run is started
start_capture ==
    /\ is_capturing' = TRUE
    /\ capture_thread' = capture_thread + 1
    /\ thr' = [thr EXCEPT ![capture_thread + 1] = [NoThread EXCEPT !.pc = "mkdir"]]

\* on_area_selected(rect)
on_area_selected(rect) ==
    /\ ui' = <<"main">>
    /\ IF ~isEmpty(rect)
       THEN /\ crop_area' = <<rect.x1, rect.y1, width(rect), height(rect)>>
            /\ start_capture
            /\ UNCHANGED <<uiVars, is_paused>>
       ELSE /\ reset_ui
            /\ UNCHANGED <<crop_area, capture_thread, thr>>

\* mouseReleaseEvent: close the overlay, emit on_snipped (a direct call of on_area_selected)
mouseReleaseEvent ==
    /\ Top(ui) = "snip"
    /\ snip.begin # None
    /\ on_area_selected(normalized(QRect(snip.begin, snip.end)))
    /\ snip' = NoSnip            \* the closed overlay is never read again
    /\ UNCHANGED <<is_admin, total_pages, queue, fs, hist, stopCount, joined>>

pause_process ==
    /\ Top(ui) = "main"
    /\ pause_enabled
    /\ is_paused' = ~is_paused
    /\ UNCHANGED <<is_admin, total_pages, uiVars, is_capturing, crop_area,
                   capture_thread, snip, ui, queue, runVars, stopCount, joined>>

\* Stop clicked: stop_process up to its question box
stop_process ==
    /\ Top(ui) = "main"
    /\ stop_enabled
    /\ ui' = Push(ui, "confirmStop")
    /\ UNCHANGED <<is_admin, total_pages, uiVars, is_capturing, is_paused, crop_area,
                   capture_thread, snip, queue, runVars, stopCount, joined>>

\* history: where the live worker of a run was when the first stop of that run was confirmed:
\*   "between" - in the page loop with a page persisted and not capturing one
\*               (settle sleep, top of the loop, pause wait)
\*   "capture" - elsewhere in capture_pages_task
\*   "crop"    - in crop_and_create_pdf_task
StopPlace(r) ==
    IF /\ fs[r].cap # {}
       /\ \/ thr[r].pc \in {"press", "check"}
          \/ thr[r].pc = "pausewait" /\ is_paused
    THEN "between"
    ELSE IF thr[r].pc \in CapturePcs THEN "capture"
    ELSE "crop"

NoteStop(h, r) ==
    IF Alive(r) /\ h.stop = "" THEN [h EXCEPT !.stop = StopPlace(r)] ELSE h

\* the operator answers Yes
stop_confirmed ==
    /\ Top(ui) = "confirmStop"
    /\ ui' = Pop(ui)
    /\ is_capturing' = FALSE
    /\ reset_ui
    /\ stopCount' = stopCount + 1
    /\ hist' = [r \in Runs |-> NoteStop(hist[r], r)]
    /\ UNCHANGED <<is_admin, total_pages, crop_area, capture_thread, snip, queue,
                   thr, fs, joined>>

\* the operator answers No
stop_declined ==
    /\ Top(ui) = "confirmStop"
    /\ ui' = Pop(ui)
    /\ UNCHANGED <<is_admin, total_pages, uiVars, is_capturing, is_paused, crop_area,
                   capture_thread, snip, queue, runVars, stopCount, joined>>

\* a queued progress_signal is delivered: update_progress(value, text)
update_progress ==
    /\ EventLoop
    /\ queue # <<>>
    /\ Head(queue).sig = "progress"
    /\ queue' = Tail(queue)
    /\ progress_bar' = Head(queue).value
    /\ UNCHANGED <<is_admin, total_pages, start_enabled, pause_enabled, stop_enabled,
                   is_capturing, is_paused, crop_area, capture_thread, snip, ui,
                   runVars, stopCount, joined>>

\* mutant: the 100 is overwritten by the reset
process_completed_reset_last ==
    /\ EventLoop
    /\ queue # <<>>
    /\ Head(queue).sig = "finished"
    /\ queue' = Tail(queue)
    /\ ResetThenProgress(0)
    /\ ui' = Push(ui, "success")
    /\ hist' = [hist EXCEPT ![Head(queue).run].completed = @ + 1]
    /\ UNCHANGED <<is_admin, total_pages, crop_area, capture_thread, snip,
                   thr, fs, stopCount, joined>>

\* finished_signal is delivered: process_completed up to its message box.
\* progress_signal.emit(100, ...) is made on the UI thread, so update_progress(100, ...)
\* is called at once, after reset_ui
process_completed ==
    /\ EventLoop
    /\ queue # <<>>
    /\ Head(queue).sig = "finished"
    /\ queue' = Tail(queue)
    /\ ResetThenProgress(100)
    /\ ui' = Push(ui, "success")
    /\ hist' = [hist EXCEPT ![Head(queue).run].completed = @ + 1]
    /\ UNCHANGED <<is_admin, total_pages, crop_area, capture_thread, snip,
                   thr, fs, stopCount, joined>>

success_closed ==
    /\ Top(ui) = "success"
    /\ ui' = Pop(ui)
    /\ UNCHANGED <<is_admin, total_pages, uiVars, is_capturing, is_paused, crop_area,
                   capture_thread, snip, queue, runVars, stopCount, joined>>

\* the process ends: the daemon threads die with it and only the files remain
ProcessExit(how) ==
    /\ ui' = <<how>>
    /\ start_enabled' = TRUE
    /\ pause_enabled' = FALSE
    /\ stop_enabled' = FALSE
    /\ progress_bar' = -1
    /\ is_capturing' = FALSE
    /\ is_paused' = FALSE
    /\ crop_area' = None
    /\ snip' = NoSnip
    /\ queue' = <<>>
    /\ thr' = [r \in Runs |-> IF Alive(r) THEN [NoThread EXCEPT !.pc = "killed", !.total = thr[r].total]
                                           ELSE thr[r]]
    /\ UNCHANGED <<is_admin, total_pages, capture_thread, fs, stopCount>>

\* event.accept(): the last window closes and app.exec() returns
Accepted == ProcessExit("closed") /\ UNCHANGED hist

\* the window is closed: closeEvent up to its question box, or accepted at once
closeEvent ==
    /\ Top(ui) = "main"
    /\ IF is_capturing
       THEN /\ ui' = Push(ui, "confirmExit")
            /\ UNCHANGED <<is_admin, total_pages, uiVars, is_capturing, is_paused, crop_area,
                           capture_thread, snip, queue, runVars, stopCount>>
       ELSE Accepted
    /\ UNCHANGED joined

\* Yes: clear the flag and join the last thread for at most 2 seconds
exit_confirmed ==
    /\ Top(ui) = "confirmExit"
    /\ IF capture_thread # 0
       THEN /\ is_capturing' = FALSE
            /\ ui' = <<"joining">>
            /\ joined' = joined \cup {capture_thread}
            /\ UNCHANGED <<is_admin, total_pages, uiVars, is_paused, crop_area,
                           capture_thread, snip, queue, runVars, stopCount>>
       ELSE /\ Accepted
            /\ UNCHANGED joined

exit_declined ==
    /\ Top(ui) = "confirmExit"
    /\ ui' = Pop(ui)
    /\ UNCHANGED <<is_admin, total_pages, uiVars, is_capturing, is_paused, crop_area,
                   capture_thread, snip, queue, runVars, stopCount, joined>>

\* join(timeout=2) returns (thread finished, or the timeout expired); event.accept()
join_returned ==
    /\ ui = <<"joining">>
    /\ Accepted
    /\ UNCHANGED joined

\* ---- worker thread of run r -------------------------------------------------
otherVars == <<is_admin, total_pages, crop_area, capture_thread, snip, ui, stopCount, joined>>

Exit(h, kind) == [h EXCEPT !.exit = kind]

\* int((page / total) * 50) in double precision.  For 1 <= page <= total <= 9999 the
\* result is the exact floor except where page / total is 29/50: 0.58 * 50 is
\* 28.999999999999996 as a double, and int() truncates it to 28.
CaptureProgress(page, total) ==
    IF page * 50 = total * 29 THEN 28 ELSE (page * 50) \div total

\* 50 + int((i / total_images) * 40) in double precision: for 1 <= i <= total_images <= 9999
\* always the exact floor
CropProgress(i, total_images) == 50 + (i * 40) \div total_images

\* the thread has returned: its locals are gone
Ended(t) == [NoThread EXCEPT !.pc = "done", !.total = t.total]

\* capture_pages_task: os.makedirs(capture_folder)
capture_mkdir(r) ==
    /\ ProcessRunning
    /\ thr[r].pc = "mkdir"
    /\ fs' = [fs EXCEPT ![r].capMade = TRUE]
    /\ thr' = [thr EXCEPT ![r].pc = "countdown"]
    /\ UNCHANGED <<otherVars, uiVars, is_capturing, is_paused, queue, hist>>

\* time.sleep(3) is over; total = total_pages_spinbox.value(); the loop starts at page 1
capture_countdown(r) ==
    /\ ProcessRunning
    /\ thr[r].pc = "countdown"
    /\ thr' = [thr EXCEPT ![r].pc = "check", ![r].total = total_pages, ![r].page = 1]
    /\ UNCHANGED <<otherVars, uiVars, is_capturing, is_paused, queue, fs, hist>>

\* top of the page loop: if not self.is_capturing: log "Capture stopped by user."; return
capture_check_stop(r) ==
    /\ ProcessRunning
    /\ thr[r].pc = "check"
    /\ IF ~is_capturing
       THEN /\ thr' = [thr EXCEPT ![r] = Ended(@)]
            /\ hist' = [hist EXCEPT ![r] = Exit(@, "stopped")]
       ELSE /\ thr' = [thr EXCEPT ![r].pc = "pausewait"]
            /\ UNCHANGED hist
    /\ UNCHANGED <<otherVars, uiVars, is_capturing, is_paused, queue, fs>>

\* mutant: the pause flag is not waited for
capture_no_pause_wait(r) ==
    /\ ProcessRunning
    /\ thr[r].pc = "pausewait"
    /\ thr' = [thr EXCEPT ![r].pc = "shot"]
    /\ UNCHANGED <<otherVars, uiVars, is_capturing, is_paused, queue, fs, hist>>

\* while self.is_paused: time.sleep(0.1)   (left when the flag is read as False)
capture_pause_wait(r) ==
    /\ ProcessRunning
    /\ thr[r].pc = "pausewait"
    /\ ~is_paused
    /\ thr' = [thr EXCEPT ![r].pc = "shot"]
    /\ UNCHANGED <<otherVars, uiVars, is_capturing, is_paused, queue, fs, hist>>

\* mutant: the loop ends one page early (range(1, total))
capture_page_short(r) ==
    /\ ProcessRunning
    /\ thr[r].pc = "shot"
    /\ fs' = [fs EXCEPT ![r].cap = SaveFile(@, [name |-> PageName(thr[r].page),
                                                img  |-> Len(hist[r].captured) + 1])]
    /\ hist' = [hist EXCEPT ![r].captured = Append(@, thr[r].page),
                            ![r].progress = Append(@, CaptureProgress(thr[r].page, thr[r].total))]
    /\ thr' = [thr EXCEPT ![r].pc = IF thr[r].page < thr[r].total - 1 THEN "press" ELSE "after"]
    /\ queue' = Append(queue, [sig |-> "progress", run |-> r,
                               value |-> CaptureProgress(thr[r].page, thr[r].total)])
    /\ UNCHANGED <<otherVars, uiVars, is_capturing, is_paused>>

\* mutant: the key is pressed after the last page as well (if page < total is missing)
capture_page_press_last(r) ==
    /\ ProcessRunning
    /\ thr[r].pc = "shot"
    /\ fs' = [fs EXCEPT ![r].cap = SaveFile(@, [name |-> PageName(thr[r].page),
                                                img  |-> Len(hist[r].captured) + 1])]
    /\ hist' = [hist EXCEPT ![r].captured = Append(@, thr[r].page),
                            ![r].progress = Append(@, CaptureProgress(thr[r].page, thr[r].total))]
    /\ thr' = [thr EXCEPT ![r].pc = IF thr[r].page <= thr[r].total THEN "press" ELSE "after"]
    /\ queue' = Append(queue, [sig |-> "progress", run |-> r,
                               value |-> CaptureProgress(thr[r].page, thr[r].total)])
    /\ UNCHANGED <<otherVars, uiVars, is_capturing, is_paused>>

\* screenshot = pyautogui.screenshot(); screenshot.save(page_NNNN.png);
\* progress_signal.emit(int((page / total) * 50), ...)
\* the image is marked with its position in the order of capture
capture_page(r) ==
    /\ ProcessRunning
    /\ thr[r].pc = "shot"
    /\ fs' = [fs EXCEPT ![r].cap = SaveFile(@, [name |-> PageName(thr[r].page),
                                                img  |-> Len(hist[r].captured) + 1])]
    /\ hist' = [hist EXCEPT ![r].captured = Append(@, thr[r].page),
                            ![r].progress = Append(@, CaptureProgress(thr[r].page, thr[r].total))]
    /\ thr' = [thr EXCEPT ![r].pc = IF thr[r].page < thr[r].total THEN "press" ELSE "after"]
    /\ queue' = Append(queue, [sig |-> "progress", run |-> r,
                               value |-> CaptureProgress(thr[r].page, thr[r].total)])
    /\ UNCHANGED <<otherVars, uiVars, is_capturing, is_paused>>

\* pyautogui.press(page_key); time.sleep(1.5); next page
capture_advance(r) ==
    /\ ProcessRunning
    /\ thr[r].pc = "press"
    /\ thr' = [thr EXCEPT ![r].pc = "check", ![r].page = @ + 1]
    /\ hist' = [hist EXCEPT ![r].pressed = @ + 1]
    /\ UNCHANGED <<otherVars, uiVars, is_capturing, is_paused, queue, fs>>

\* after the loop: if self.is_capturing: crop_and_create_pdf_task(...) up to its loop
capture_complete(r) ==
    /\ ProcessRunning
    /\ thr[r].pc = "after"
    /\ IF is_capturing
       THEN /\ fs' = [fs EXCEPT ![r].cropMade = TRUE]
            /\ thr' = [thr EXCEPT ![r].pc = "ccheck",
                                  ![r].image_files = PngListing(fs[r].cap),
                                  ![r].i = 1]
            /\ UNCHANGED hist
       ELSE /\ thr' = [thr EXCEPT ![r] = Ended(@)]
            /\ hist' = [hist EXCEPT ![r] = Exit(@, "silent")]
            /\ UNCHANGED fs
    /\ UNCHANGED <<otherVars, uiVars, is_capturing, is_paused, queue>>

\* top of the crop loop: exhausted (progress_signal.emit(95, ...) follows the loop),
\* or if not self.is_capturing: log; return
crop_check_stop(r) ==
    /\ ProcessRunning
    /\ thr[r].pc = "ccheck"
    /\ IF thr[r].i > Len(thr[r].image_files)
       THEN /\ thr' = [thr EXCEPT ![r].pc = "pdf"]
            /\ hist' = [hist EXCEPT ![r].progress = Append(@, 95)]
            /\ queue' = Append(queue, [sig |-> "progress", run |-> r, value |-> 95])
       ELSE IF ~is_capturing
       THEN /\ thr' = [thr EXCEPT ![r] = Ended(@)]
            /\ hist' = [hist EXCEPT ![r] = Exit(@, "stopped_cropping")]
            /\ UNCHANGED queue
       ELSE /\ thr' = [thr EXCEPT ![r].pc = "ccrop"]
            /\ UNCHANGED <<hist, queue>>
    /\ UNCHANGED <<otherVars, uiVars, is_capturing, is_paused, fs>>

\* x, y, w, h = self.crop_area;  img.crop((x, y, x + w, y + h))
CropBox(area) == <<area[1], area[2], area[1] + area[3], area[2] + area[4]>>

\* Image.open(input).crop(box).save(output), same file name;
\* progress_signal.emit(50 + int((i / total_images) * 40), ...)
crop_image(r) ==
    /\ ProcessRunning
    /\ thr[r].pc = "ccrop"
    /\ LET name == thr[r].image_files[thr[r].i]
           src  == FileNamed(fs[r].cap, name)
       IN  fs' = [fs EXCEPT ![r].crop = SaveFile(@, [name |-> name, img |-> src.img,
                                                     box |-> CropBox(crop_area)])]
    /\ thr' = [thr EXCEPT ![r].pc = "ccheck", ![r].i = @ + 1]
    /\ hist' = [hist EXCEPT ![r].progress =
                    Append(@, CropProgress(thr[r].i, Len(thr[r].image_files)))]
    /\ queue' = Append(queue, [sig |-> "progress", run |-> r,
                               value |-> CropProgress(thr[r].i, Len(thr[r].image_files))])
    /\ UNCHANGED <<otherVars, uiVars, is_capturing, is_paused>>

\* except Exception as e: log_signal.emit("Error ..."); self.reset_ui(); the thread returns.
\* reset_ui runs on the worker thread here.  QWidget methods called off the GUI thread
\* are undefined behaviour in Qt: either the calls take effect or the process aborts.
worker_except(r, kind) ==
    \/ /\ reset_ui
       /\ thr' = [thr EXCEPT ![r] = Ended(@)]
       /\ hist' = [hist EXCEPT ![r] = Exit(@, kind)]
       /\ UNCHANGED <<otherVars, queue, fs>>
    \/ /\ ProcessExit("crashed")
       /\ hist' = [hist EXCEPT ![r] = Exit(@, kind)]
       /\ UNCHANGED joined

\* cropped_files = sorted(listdir(cropped_folder)); the images in that order are saved as
\* one PDF and finished_signal is emitted; an empty listing raises ValueError
create_pdf(r) ==
    /\ ProcessRunning
    /\ thr[r].pc = "pdf"
    /\ LET cropped_files == PngListing(fs[r].crop)
       IN  IF cropped_files = <<>>
           THEN worker_except(r, "error")
           ELSE /\ fs' = [fs EXCEPT ![r].pdf =
                             [k \in 1..Len(cropped_files) |->
                                 FileNamed(fs[r].crop, cropped_files[k]).img]]
                /\ queue' = Append(queue, [sig |-> "finished", run |-> r])
                /\ hist' = [hist EXCEPT ![r] = Exit(@, "finished")]
                /\ thr' = [thr EXCEPT ![r] = Ended(@)]
                /\ UNCHANGED <<otherVars, uiVars, is_capturing, is_paused>>

\* ---- failing collaborators -------------------------------------------------
\* os.makedirs, pyautogui.screenshot / Image.save or pyautogui.press raises
capture_failed(r) ==
    /\ ProcessRunning
    /\ thr[r].pc \in {"mkdir", "shot", "press"}
    /\ worker_except(r, "capture_error")

\* Image.open / crop / save of one image, or the PDF writer, raises
crop_failed(r) ==
    /\ ProcessRunning
    /\ thr[r].pc \in {"ccrop", "pdf"}
    /\ worker_except(r, "error")

\* another process empties the cropped directory before it is listed
cropped_files_removed(r) ==
    /\ ProcessRunning
    /\ thr[r].pc = "pdf"
    /\ fs[r].crop # {}
    /\ fs' = [fs EXCEPT ![r].crop = {}]
    /\ UNCHANGED <<otherVars, uiVars, is_capturing, is_paused, queue, thr, hist>>

\* ---- specification ----------------------------------------------------------
Worker(r) ==
    \/ capture_mkdir(r)
    \/ capture_countdown(r)
    \/ capture_check_stop(r)
    \/ capture_pause_wait(r)
    \/ capture_page(r)
    \/ capture_advance(r)
    \/ capture_complete(r)
    \/ crop_check_stop(r)
    \/ crop_image(r)
    \/ create_pdf(r)

Next ==
    \/ start_process
    \/ admin_warning_closed
    \/ select_crop_area
    \/ \E p \in Points : mousePressEvent(p)
    \/ \E p \in Points : mouseMoveEvent(p)
    \/ mouseReleaseEvent
    \/ pause_process
    \/ stop_process
    \/ stop_confirmed
    \/ stop_declined
    \/ update_progress
    \/ process_completed
    \/ success_closed
    \/ closeEvent
    \/ exit_confirmed
    \/ exit_declined
    \/ join_returned
    \/ \E r \in Runs : Worker(r)

Spec == Init /\ [][Next]_vars

\* sessions in which Start leads to a run once only, whatever MaxRuns is
first_start == StartProcess(1)

NextSingleRun ==
    \/ first_start
    \/ admin_warning_closed
    \/ select_crop_area
    \/ \E p \in Points : mousePressEvent(p)
    \/ \E p \in Points : mouseMoveEvent(p)
    \/ mouseReleaseEvent
    \/ pause_process
    \/ stop_process
    \/ stop_confirmed
    \/ stop_declined
    \/ update_progress
    \/ process_completed
    \/ success_closed
    \/ closeEvent
    \/ exit_confirmed
    \/ exit_declined
    \/ join_returned
    \/ \E r \in Runs : Worker(r)

SpecSingleRun == Init /\ [][NextSingleRun]_vars

\* ... and every worker thread that can take a step eventually takes one
SpecSingleRunFair ==
    Init /\ [][NextSingleRun]_vars /\ \A r \in Runs : WF_vars(Worker(r))

\* single-run sessions in which the event loop delivers every queued signal, and a worker
\* polling the paused flag every 0.1 s sees a resume: a step that is possible again and
\* again is eventually taken
SpecLive ==
    /\ Init /\ [][NextSingleRun]_vars
    /\ \A r \in Runs : SF_vars(Worker(r))
    /\ WF_vars(update_progress)
    /\ WF_vars(process_completed)

\* sessions in which one more run may be started, from the state in which the stop of
\* the first run has just been confirmed while its worker was starting
NextRestart ==
    \/ restart_process
    \/ select_crop_area
    \/ \E p \in Points : mousePressEvent(p)
    \/ \E p \in Points : mouseMoveEvent(p)
    \/ mouseReleaseEvent
    \/ pause_process
    \/ stop_process
    \/ stop_confirmed
    \/ stop_declined
    \/ update_progress
    \/ process_completed
    \/ success_closed
    \/ closeEvent
    \/ exit_confirmed
    \/ exit_declined
    \/ join_returned
    \/ \E r \in Runs : Worker(r)

InitRestart ==
    /\ is_admin = TRUE
    /\ total_pages \in MinPages..MaxTotal
    /\ start_enabled = TRUE
    /\ pause_enabled = FALSE
    /\ stop_enabled = FALSE
    /\ progress_bar = 0
    /\ is_capturing = FALSE
    /\ is_paused = FALSE
    /\ crop_area = <<0, 0, 1, 1>>
    /\ capture_thread = 1
    /\ snip = NoSnip
    /\ ui = <<"main">>
    /\ queue = <<>>
    /\ thr = [r \in Runs |-> IF r = 1 THEN [NoThread EXCEPT !.pc = "mkdir"] ELSE NoThread]
    /\ fs = [r \in Runs |-> NoFiles]
    /\ hist = [r \in Runs |-> IF r = 1 THEN [NoHist EXCEPT !.stop = "capture"] ELSE NoHist]
    /\ stopCount = 1
    /\ joined = {}

SpecRestart == InitRestart /\ [][NextRestart]_vars

\* sessions in which collaborator calls may fail
NextFaults ==
    \/ Next
    \/ \E r \in Runs : capture_failed(r)
    \/ \E r \in Runs : crop_failed(r)
    \/ \E r \in Runs : cropped_files_removed(r)

SpecFaults == Init /\ [][NextFaults]_vars

\* the state right after start_capture of the first run, for a page count in pages
StartedRun(pages) ==
    /\ is_admin = TRUE
    /\ total_pages \in pages
    /\ start_enabled = FALSE
    /\ pause_enabled = TRUE
    /\ stop_enabled = TRUE
    /\ progress_bar = -1
    /\ is_capturing = TRUE
    /\ is_paused = FALSE
    /\ crop_area = <<0, 0, 1, 1>>
    /\ capture_thread = 1
    /\ snip = NoSnip
    /\ ui = <<"main">>
    /\ queue = <<>>
    /\ thr = [r \in Runs |-> IF r = 1 THEN [NoThread EXCEPT !.pc = "mkdir"] ELSE NoThread]
    /\ fs = [r \in Runs |-> NoFiles]
    /\ hist = [r \in Runs |-> NoHist]
    /\ stopCount = 0
    /\ joined = {}

\* one run from start_capture on, never stopped and the window never closed,
\* for page counts up to MaxPages
InitUninterrupted == StartedRun(MinPages..MaxPages)

NextUninterrupted ==
    \/ pause_process
    \/ update_progress
    \/ process_completed
    \/ success_closed
    \/ \E r \in Runs : Worker(r)

SpecUninterrupted == InitUninterrupted /\ [][NextUninterrupted]_vars

\* the worker of such a run on its own, for page counts up to MaxLongRun
InitLongRun == StartedRun(MinPages..MaxLongRun)

NextLongRun == \E r \in Runs : Worker(r)

SpecLongRun == InitLongRun /\ [][NextLongRun]_vars

TypeOK ==
    /\ is_capturing \in BOOLEAN
    /\ is_paused \in BOOLEAN
    /\ capture_thread \in 0..(MaxRuns + 1)
    /\ stopCount \in 0..(MaxRuns + 1)
    /\ \A r \in Runs : thr[r].page \in 0..MaxLongRun
    /\ progress_bar \in -1..100

\* ---- properties ---------------------------------------------------------------
Names(dir)   == {f.name : f \in dir}
PageNames(n) == {PageName(p) : p \in 1..n}
UpTo(n)      == [k \in 1..n |-> k]

\* no stop was confirmed and no exit was confirmed
NoStopRequested == stopCount = 0 /\ joined = {}

Idle == start_enabled /\ ~pause_enabled /\ ~stop_enabled /\ ~is_capturing /\ ~is_paused

\* C1: a run that has ended, with no stop requested, has written exactly T page images
\* page_0001.png .. page_<T>.png, T cropped images of the same names, and a PDF of T images.
C1_UninterruptedRunWritesT ==
    \A r \in Runs :
        (thr[r].pc = "done" /\ NoStopRequested) =>
            /\ hist[r].exit = "finished"
            /\ Names(fs[r].cap) = PageNames(thr[r].total)
            /\ Cardinality(fs[r].cap) = thr[r].total
            /\ Names(fs[r].crop) = PageNames(thr[r].total)
            /\ Cardinality(fs[r].crop) = thr[r].total
            /\ Len(fs[r].pdf) = thr[r].total

C1_Witness ==
    \E r \in Runs : /\ thr[r].pc = "done"
                    /\ NoStopRequested
                    /\ thr[r].total = MaxTotal
                    /\ Len(fs[r].pdf) = MaxTotal

\* C2: page indices are written in the order 1, 2, ...; among the files of a run the
\* ascending order of file names is the order of capture; and the PDF writer receives
\* the images in the order of capture.
C2_PdfOrderIsCaptureOrder ==
    \A r \in Runs :
        /\ hist[r].captured = UpTo(Len(hist[r].captured))
        /\ \A f, g \in fs[r].cap : (f.img < g.img) <=> StrLess(f.name, g.name)
        /\ \A f, g \in fs[r].crop : (f.img < g.img) <=> StrLess(f.name, g.name)
        /\ fs[r].pdf # <<>> => fs[r].pdf = UpTo(thr[r].total)

C2_Witness == \E r \in Runs : Len(fs[r].pdf) >= 10

\* C3: once stop is confirmed while the worker is between two captures with k >= 1 pages
\* persisted, the worker of that run persists no further page image.
C3_StopKeepsKImages ==
    [][\A r \in Runs : hist[r].stop = "between" => fs'[r].cap = fs[r].cap]_vars

\* C4: a run stopped during its capture phase logs that it was stopped, never enters
\* crop_and_create_pdf_task and never has a cropped directory.
C4_StoppedRunReportsStopped ==
    \A r \in Runs :
        hist[r].stop \in {"between", "capture"} =>
            /\ ~fs[r].cropMade
            /\ thr[r].pc \notin CropPcs
            /\ thr[r].pc = "done" => hist[r].exit = "stopped"

\* C5: while the paused flag stays set, a worker at the top of an iteration starts no page;
\* the pages captured are always 1, 2, ... in order, and a run not stopped that has left
\* the page loop has captured every page 1..T exactly once.
C5_PauseHaltsAdvance ==
    /\ [][\A r \in Runs :
            (is_paused /\ is_paused' /\ thr[r].pc \in {"check", "pausewait"}) =>
                (thr'[r].pc # "shot" /\ hist'[r].captured = hist[r].captured)]_vars
    /\ [](\A r \in Runs :
            /\ hist[r].captured = UpTo(Len(hist[r].captured))
            /\ (NoStopRequested /\ thr[r].pc \in ({"after", "done"} \cup CropPcs)) =>
                   hist[r].captured = UpTo(thr[r].total))

C5_Witness ==
    \E r \in Runs : /\ is_paused
                    /\ thr[r].pc = "pausewait"
                    /\ Len(hist[r].captured) >= 1
                    /\ NoStopRequested

\* C6: at most one worker thread is running at any time.
C6_AtMostOneWorker == Cardinality({r \in Runs : Alive(r)}) <= 1

\* C7: releasing the mouse where it was pressed leaves the crop rectangle unset, starts
\* no worker and returns the controls to Idle.
C7_ZeroAreaCancels ==
    [][(Top(ui) = "snip" /\ snip.begin # None /\ snip.begin = snip.end /\ ui' = <<"main">>) =>
            (crop_area' = crop_area /\ capture_thread' = capture_thread /\ thr' = thr /\ Idle')]_vars

\* C8: without administrator rights nothing ever leaves its initial value: the controls
\* stay Idle, no crop rectangle, no overlay, no worker and no directory.
C8_NoAdminRefuses ==
    ~is_admin =>
        /\ Idle
        /\ crop_area = None
        /\ capture_thread = 0
        /\ Top(ui) \in {"main", "adminWarning", "closed"}
        /\ \A r \in Runs : thr[r].pc = "none" /\ fs[r] = NoFiles

C8_Witness == ~is_admin /\ Top(ui) = "adminWarning"

\* C9: when a confirmed stop resets the controls, every worker still running has been
\* joined with a timeout.
C9_StopWaitsForWorker ==
    [][stopCount' # stopCount => \A r \in Runs : Alive(r)' => r \in joined']_vars

\* C10: pause_process toggles the paused flag only while the capture loop of the current
\* run is active.
CaptureLoopActive == capture_thread # 0 /\ thr[capture_thread].pc \in CapturePcs

C10_PauseOnlyWhileCapturing ==
    [][(is_paused' # is_paused /\ pause_enabled') => CaptureLoopActive]_vars

\* ---- worker and UI thread ---------------------------------------------------
\* a step of a worker thread of a process that keeps running
WorkerStep == ui' = ui /\ \E r \in Runs : Alive(r) /\ thr'[r] # thr[r]

\* C11: no step of a worker thread changes UI-owned state (the enablement of the
\* buttons): the worker only emits events that the UI thread handles.
C11_WorkerLeavesUiAlone == [][WorkerStep => UNCHANGED uiVars]_vars

\* C12: the window closes while a worker is still running only after the operator
\* confirmed, the capturing flag was cleared and that worker was joined with a timeout;
\* declining the exit question changes nothing of the run.
C12_CloseJoinsActiveRun ==
    [][/\ (ProcessRunning /\ ui' = <<"closed">>) =>
              \A r \in Runs : Alive(r) => (ui = <<"joining">> /\ ~is_capturing /\ r \in joined)
       /\ (Top(ui) = "confirmExit" /\ ui' = Pop(ui)) =>
              UNCHANGED <<uiVars, is_capturing, is_paused, crop_area, capture_thread,
                          queue, runVars>>]_vars

BandValue(k, T) ==
    IF k <= T THEN (k * 50) \div T
    ELSE IF k <= 2 * T THEN 50 + ((k - T) * 40) \div T
    ELSE 95

\* C14: in an uninterrupted run of T pages the worker emits floor(p*50/T) after page p,
\* 50 + floor(i*40/T) after crop i and 95 before the PDF is written; the values lie in
\* 0..100 and never decrease, the last capture value is 50 and the last crop value 90;
\* the finished event, whose handler shows 100, exists only once the PDF is written.
C14_ProgressBands ==
    /\ \A r \in Runs :
          LET pr == hist[r].progress
              T  == thr[r].total
          IN  /\ Len(pr) <= 2 * T + 1
              /\ \A k \in 1..Len(pr) : pr[k] = BandValue(k, T) /\ pr[k] \in 0..100
              /\ \A k \in 1..(Len(pr) - 1) : pr[k] <= pr[k + 1]
              /\ (T > 0 /\ Len(pr) >= T) => pr[T] = 50
              /\ (T > 0 /\ Len(pr) >= 2 * T) => pr[2 * T] = 90
    /\ \A k \in 1..Len(queue) : queue[k].sig = "finished" => fs[queue[k].run].pdf # <<>>
    /\ Top(ui) = "success" => fs[capture_thread].pdf # <<>>

\* C15: the key is pressed only after a page is persisted and before the next capture
\* begins, never after page T: a worker about to capture has pressed once per page
\* persisted, otherwise once less, and a run not stopped that has left the page loop
\* has pressed exactly T - 1 times.
C15_KeyPressedBetweenCaptures ==
    \A r \in Runs :
        LET n == Len(hist[r].captured)
        IN  /\ thr[r].pc \in {"check", "pausewait", "shot"} => hist[r].pressed = n
            /\ thr[r].pc \in ({"press", "after"} \cup CropPcs) => hist[r].pressed = n - 1
            /\ n = 0 => hist[r].pressed = 0
            /\ n > 0 => hist[r].pressed \in {n - 1, n}
            /\ thr[r].total > 0 => hist[r].pressed <= thr[r].total - 1
            /\ (NoStopRequested /\ thr[r].pc \in ({"after", "done"} \cup CropPcs)) =>
                   hist[r].pressed = thr[r].total - 1

C15_Witness ==
    \E r \in Runs : /\ thr[r].pc = "done"
                    /\ NoStopRequested
                    /\ hist[r].pressed = MaxTotal - 1
                    /\ hist[r].pressed >= 1

\* C16: the crop rectangle does not change while a worker is running, it is non-empty
\* whenever a worker is in the crop stage, and all cropped images of one run were cut
\* with one and the same box (x, y, x+w, y+h) of positive width and height.
C16_CropAreaFixedDuringRun ==
    /\ [][\A r \in Runs : (Alive(r) /\ Alive(r)') => crop_area' = crop_area]_vars
    /\ [](\A r \in Runs :
            /\ thr[r].pc \in CropPcs => (crop_area # None /\ crop_area[3] > 0 /\ crop_area[4] > 0)
            /\ \A f, g \in fs[r].crop : f.box = g.box /\ f.box[1] < f.box[3] /\ f.box[2] < f.box[4])

\* C17: a worker that reaches the top of a crop iteration after stop was confirmed for
\* its run returns there: it crops no further image, writes no PDF and emits no
\* finished event.
C17_CropCheckHonorsStop ==
    [][\A r \in Runs :
          (/\ hist[r].stop # ""
           /\ thr[r].pc = "ccheck"
           /\ thr[r].i <= Len(thr[r].image_files)
           /\ thr'[r] # thr[r]) =>
              (~Alive(r)' /\ fs'[r] = fs[r] /\ hist'[r].exit # "finished")]_vars

C19_StoppedRunNeverFinishes ==
    [][\A r \in Runs :
          hist[r].stop # "" =>
              /\ fs'[r].pdf = fs[r].pdf
              /\ hist'[r].exit = "finished" => hist[r].exit = "finished"]_vars

\* C20: under fair scheduling of the workers, once stop was confirmed while the worker
\* of a run was alive and no further run is started, that worker eventually is no
\* longer running, also when it was blocked in the pause wait.
C20_StoppedWorkerExits ==
    \A r \in Runs : (hist[r].stop # "") ~> ~Alive(r)

C20_Witness ==
    \E r \in Runs : hist[r].stop = "between" /\ thr[r].pc = "done" /\ ProcessRunning

\* ---- displayed progress -------------------------------------------------------
\* C21: a started run in which no stop or exit is confirmed and every pause is followed
\* by a resume eventually has its finished event delivered; it is delivered once only,
\* the delivery leaves the controls Idle with both flags false and the progress bar at
\* 100, and the bar stays at 100 afterwards.
C21_RunCompletes ==
    /\ \A r \in Runs :
          ([]<>(~is_paused) /\ []NoStopRequested) => (Alive(r) ~> (hist[r].completed = 1))
    /\ [][\A r \in Runs :
             hist'[r].completed # hist[r].completed =>
                 (hist'[r].completed = 1 /\ Idle' /\ progress_bar' = 100)]_vars
    /\ [](\A r \in Runs :
             (hist[r].completed = 1 /\ NoStopRequested /\ ProcessRunning) =>
                 (progress_bar = 100 /\ ~is_capturing /\ ~is_paused))

C21_Witness ==
    \E r \in Runs : /\ hist[r].completed = 1
                    /\ thr[r].total = MaxTotal
                    /\ NoStopRequested
                    /\ Idle
                    /\ progress_bar = 100
                    /\ Top(ui) = "main"

\* C22: once a confirmed stop has reset the controls, the progress bar stays at 0 for as
\* long as Start stays enabled: no progress event of the stopped run is rendered.
C22_ProgressStaysReadyAfterStop ==
    [][(/\ stopCount > 0
        /\ start_enabled /\ start_enabled'
        /\ progress_bar = 0
        /\ ProcessRunning') => progress_bar' = 0]_vars

====
